---------------------------- MODULE Spec2Model ----------------------------
(***************************************************************************)
(* Model of the stream ledger of the timelock crate (src/src/state.rs):    *)
(* CreateParams (the schedule), Contract (the ledger record) and the       *)
(* operations Contract::new, deposit_net, deposit_gross, try_sync_balance. *)
(*                                                                         *)
(* Every quantity of the ledger is a u64.  The model checker's integers    *)
(* are 32-bit signed, so the word is narrowed to 31 bits: U64_MAX stands   *)
(* for u64::MAX.  No operation of the ledger wraps (all of them are        *)
(* checked), so the width only decides where a checked operation fails;    *)
(* every comparison against U64_MAX is written so that no intermediate     *)
(* value leaves the checker's range.                                       *)
(*                                                                         *)
(* try_math (try_add, try_sub, try_mul, try_div, try_add_assign) and utils *)
(* (calculate_fee_from_amount, calculate_external_deposit) are modules of  *)
(* the crate that state.rs imports (lines 5-10); they are modelled from    *)
(* sections 4.1 and 4.2 of the specification.                              *)
(***************************************************************************)
EXTENDS Integers, Sequences, FiniteSets, TLC

VARIABLES
    created,    \* TRUE once Contract::new has returned Ok(ledger)
    ledger,     \* the Contract record (all fields), meaningful when created
    pre,        \* history: the ledger as it was before the last call
    call,       \* history: the last call, [op, arg, ok]
    deposited,  \* history: the sum of everything deposited by successful calls
    clean,      \* history: no call on the ledger has returned an error so far
    ncalls,     \* number of deposit / sync calls made on the ledger
    given       \* history: the route and the arguments of the creating call

vars == <<created, ledger, pre, call, deposited, clean, ncalls, given>>

-----------------------------------------------------------------------------
(* Bounds and constants *)

\* u64::MAX, narrowed to the widest value the checker's integers hold (2^31 - 1).
U64_MAX == (2^30 - 1) * 2 + 1

\* pub const PROGRAM_VERSION: u8 = 2;
PROGRAM_VERSION == 2

\* The number of calls explored after Contract::new.
MaxCalls == 2

\* save_account_info is explored on ledgers that have seen at most this many
\* calls since Contract::new.
MaxCallsBeforeSave == 0

-----------------------------------------------------------------------------
(* Result<u64, ProgramError> *)

Ok(v) == [ok |-> TRUE, val |-> v]
Err == [ok |-> FALSE, val |-> 0]

(* try_math: checked arithmetic on u64 (specification 4.1): each primitive *)
(* fails with an explicit error on overflow, underflow or division by 0.   *)
try_add(a, b) == IF a > U64_MAX - b THEN Err ELSE Ok(a + b)
try_sub(a, b) == IF b > a THEN Err ELSE Ok(a - b)
try_mul(a, b) == IF a # 0 /\ b > U64_MAX \div a THEN Err ELSE Ok(a * b)
try_div(a, b) == IF b = 0 THEN Err ELSE Ok(a \div b)

(* utils::calculate_fee_from_amount (specification 4.2):                   *)
(* floor(amount * percent / 100).  A percentage is held in hundredths of a *)
(* percent (0.25% is 25), so the fee is floor(amount * p / 10000); with    *)
(* amount = 10000 q + r that is q * p + floor(r * p / 10000), which keeps  *)
(* every intermediate value in range.  The function returns a plain u64:   *)
(* state.rs applies no `?` to it.                                          *)
\* (a fee rounded up instead of down:)
calculate_fee_from_amount_RoundedUp(amount, percent) ==
    (amount \div 10000) * percent + ((amount % 10000) * percent + 9999) \div 10000

calculate_fee_from_amount(amount, percent) ==
    (amount \div 10000) * percent + ((amount % 10000) * percent) \div 10000

(* utils::calculate_external_deposit (specification 4.2):                  *)
(* delta = observed_balance - (gross_recorded - total_withdrawn), 0 when   *)
(* the observed balance is less than or equal to the expected one; the     *)
(* inner subtraction is checked.                                           *)
calculate_external_deposit(balance, gross_amount_, amount_withdrawn_) ==
    LET expected == try_sub(gross_amount_, amount_withdrawn_)
    IN  IF ~expected.ok THEN Err
        ELSE IF balance <= expected.val THEN Ok(0)
        ELSE Ok(balance - expected.val)

-----------------------------------------------------------------------------
(* CreateParams *)

\* let start = if self.cliff > 0 { self.cliff } else { self.start_time };
start_of(ix) == IF ix.cliff > 0 THEN ix.cliff ELSE ix.start_time

\* calculate_end_time that always starts from start_time
calculate_end_time_IgnoresCliff(ix) ==
    LET start == ix.start_time
        periods_left == try_div(ix.net_amount_deposited, ix.amount_per_period)
    IN  IF ~periods_left.ok THEN Err
        ELSE LET seconds_left == try_mul(periods_left.val, ix.period)
             IN  IF ~seconds_left.ok THEN Err
                 ELSE try_add(start, seconds_left.val)

\* calculate_end_time that divides amount_per_period by the deposit
calculate_end_time_SwappedDivision(ix) ==
    LET start == start_of(ix)
        periods_left == try_div(ix.amount_per_period, ix.net_amount_deposited)
    IN  IF ~periods_left.ok THEN Err
        ELSE LET seconds_left == try_mul(periods_left.val, ix.period)
             IN  IF ~seconds_left.ok THEN Err
                 ELSE try_add(start, seconds_left.val)

\* calculate_end_time that counts a started period as a full one
calculate_end_time_OnePeriodMore(ix) ==
    LET start == start_of(ix)
        periods_left == try_div(ix.net_amount_deposited, ix.amount_per_period)
    IN  IF ~periods_left.ok THEN Err
        ELSE LET rounded_up ==
                     IF ix.net_amount_deposited % ix.amount_per_period = 0
                     THEN periods_left.val ELSE periods_left.val + 1
                 seconds_left == try_mul(rounded_up, ix.period)
             IN  IF ~seconds_left.ok THEN Err
                 ELSE try_add(start, seconds_left.val)

\* CreateParams::calculate_end_time
calculate_end_time(ix) ==
    LET start == start_of(ix)
        periods_left == try_div(ix.net_amount_deposited, ix.amount_per_period)
    IN  IF ~periods_left.ok THEN Err
        ELSE LET seconds_left == try_mul(periods_left.val, ix.period)
             IN  IF ~seconds_left.ok THEN Err
                 ELSE try_add(start, seconds_left.val)

\* stream_available counting from start_time even when a cliff is set
stream_available_FromStartTime(ix, now) ==
    LET elapsed == try_sub(now, ix.start_time)
    IN  IF ~elapsed.ok THEN Err
        ELSE LET periods_passed == try_div(elapsed.val, ix.period)
             IN  IF ~periods_passed.ok THEN Err
                 ELSE try_mul(periods_passed.val, ix.amount_per_period)

\* stream_available with the cliff unlock added to the vested amount
stream_available_PlusCliffAmount(ix, now) ==
    LET start == start_of(ix)
        elapsed == try_sub(now, start)
    IN  IF ~elapsed.ok THEN Err
        ELSE LET periods_passed == try_div(elapsed.val, ix.period)
             IN  IF ~periods_passed.ok THEN Err
                 ELSE LET vested == try_mul(periods_passed.val, ix.amount_per_period)
                      IN  IF ~vested.ok THEN Err
                          ELSE try_add(vested.val, ix.cliff_amount)

\* CreateParams::stream_available
stream_available(ix, now) ==
    LET start == start_of(ix)
        elapsed == try_sub(now, start)
    IN  IF ~elapsed.ok THEN Err
        ELSE LET periods_passed == try_div(elapsed.val, ix.period)
             IN  IF ~periods_passed.ok THEN Err
                 ELSE try_mul(periods_passed.val, ix.amount_per_period)

-----------------------------------------------------------------------------
(* Contract *)

\* Result<Contract, ProgramError> and the outcome of a &mut self method:
\* `self` is the record as the method leaves it when it returns.
Done(self) == [ok |-> TRUE, self |-> self]
Failed(self) == [ok |-> FALSE, self |-> self]

\* The record before Contract::new has run (no ledger exists; never read).
NoLedger ==
    [magic |-> 0, version |-> 0, created_at |-> 0, amount_withdrawn |-> 0,
     canceled_at |-> 0, end_time |-> 0, last_withdrawn_at |-> 0,
     sender |-> "", sender_tokens |-> "", recipient |-> "",
     recipient_tokens |-> "", mint |-> "", escrow_tokens |-> "",
     streamflow_treasury |-> "", streamflow_treasury_tokens |-> "",
     streamflow_fee_total |-> 0, streamflow_fee_withdrawn |-> 0,
     streamflow_fee_percent |-> 0, partner |-> "", partner_tokens |-> "",
     partner_fee_total |-> 0, partner_fee_withdrawn |-> 0,
     partner_fee_percent |-> 0,
     ix |-> [start_time |-> 0, net_amount_deposited |-> 0, period |-> 0,
             amount_per_period |-> 0, cliff |-> 0, cliff_amount |-> 0,
             cancelable_by_sender |-> FALSE, cancelable_by_recipient |-> FALSE,
             automatic_withdrawal |-> FALSE, transferable_by_sender |-> FALSE,
             transferable_by_recipient |-> FALSE, can_topup |-> FALSE,
             stream_name |-> ""]]

\* Contract::new that falls back to an end time of 0 when calculate_end_time
\* fails (unwrap_or_default in place of `?`)
new_DefaultEndTime(now, acc, ix, partner_fee_total, partner_fee_percent, streamflow_fee_total, streamflow_fee_percent) ==
    LET end_time == calculate_end_time(ix)
    IN  Done(
            [magic |-> 0,
             version |-> PROGRAM_VERSION,
             created_at |-> now,
             amount_withdrawn |-> 0,
             canceled_at |-> 0,
             end_time |-> end_time.val,
             last_withdrawn_at |-> 0,
             sender |-> acc.sender,
             sender_tokens |-> acc.sender_tokens,
             recipient |-> acc.recipient,
             recipient_tokens |-> acc.recipient_tokens,
             mint |-> acc.mint,
             escrow_tokens |-> acc.escrow_tokens,
             streamflow_treasury |-> acc.streamflow_treasury,
             streamflow_treasury_tokens |-> acc.streamflow_treasury_tokens,
             streamflow_fee_total |-> streamflow_fee_total,
             streamflow_fee_withdrawn |-> 0,
             streamflow_fee_percent |-> streamflow_fee_percent,
             partner |-> acc.partner,
             partner_tokens |-> acc.partner_tokens,
             partner_fee_total |-> partner_fee_total,
             partner_fee_withdrawn |-> 0,
             partner_fee_percent |-> partner_fee_percent,
             ix |-> ix])

\* Contract::new that stores each fee percent in the other party's field
new_SwappedFeePercents(now, acc, ix, partner_fee_total, partner_fee_percent, streamflow_fee_total, streamflow_fee_percent) ==
    LET end_time == calculate_end_time(ix)
        built == new_DefaultEndTime(now, acc, ix, partner_fee_total, partner_fee_percent,
                                    streamflow_fee_total, streamflow_fee_percent).self
    IN  IF ~end_time.ok THEN Failed(NoLedger)
        ELSE Done([built EXCEPT !.partner_fee_percent = streamflow_fee_percent,
                                !.streamflow_fee_percent = partner_fee_percent])

\* Contract::new
new(now, acc, ix, partner_fee_total, partner_fee_percent, streamflow_fee_total, streamflow_fee_percent) ==
    LET end_time == calculate_end_time(ix)
    IN  IF ~end_time.ok THEN Failed(NoLedger)
        ELSE Done(
            [magic |-> 0,
             version |-> PROGRAM_VERSION,
             created_at |-> now,
             amount_withdrawn |-> 0,
             canceled_at |-> 0,
             end_time |-> end_time.val,
             last_withdrawn_at |-> 0,
             sender |-> acc.sender,
             sender_tokens |-> acc.sender_tokens,
             recipient |-> acc.recipient,
             recipient_tokens |-> acc.recipient_tokens,
             mint |-> acc.mint,
             escrow_tokens |-> acc.escrow_tokens,
             streamflow_treasury |-> acc.streamflow_treasury,
             streamflow_treasury_tokens |-> acc.streamflow_treasury_tokens,
             streamflow_fee_total |-> streamflow_fee_total,
             streamflow_fee_withdrawn |-> 0,
             streamflow_fee_percent |-> streamflow_fee_percent,
             partner |-> acc.partner,
             partner_tokens |-> acc.partner_tokens,
             partner_fee_total |-> partner_fee_total,
             partner_fee_withdrawn |-> 0,
             partner_fee_percent |-> partner_fee_percent,
             ix |-> ix])

\* The creation instruction without the cliff_amount check
create_NoCliffAmountCheck(now, acc, ix, partner_fee_total, partner_fee_percent, streamflow_fee_total, streamflow_fee_percent) ==
    IF ix.net_amount_deposited < ix.amount_per_period THEN Failed(NoLedger)
    ELSE new(now, acc, ix, partner_fee_total, partner_fee_percent,
             streamflow_fee_total, streamflow_fee_percent)

\* The creation instruction without the check of the deposit against one period
create_NoDepositCheck(now, acc, ix, partner_fee_total, partner_fee_percent, streamflow_fee_total, streamflow_fee_percent) ==
    IF ix.cliff_amount > ix.net_amount_deposited THEN Failed(NoLedger)
    ELSE new(now, acc, ix, partner_fee_total, partner_fee_percent,
             streamflow_fee_total, streamflow_fee_percent)

(* create::create, the creation instruction that calls Contract::new (module  *)
(* create is imported at state.rs:6 and is not part of state.rs).  Of its     *)
(* checks, the two below are modelled: cliff_amount must not exceed            *)
(* net_amount_deposited (specification 3, Scenario C), and the deposit must   *)
(* cover one period (tests/create_test.rs, deposited_less_then_app).          *)
create(now, acc, ix, partner_fee_total, partner_fee_percent, streamflow_fee_total, streamflow_fee_percent) ==
    IF ix.cliff_amount > ix.net_amount_deposited THEN Failed(NoLedger)
    ELSE IF ix.net_amount_deposited < ix.amount_per_period THEN Failed(NoLedger)
    ELSE new(now, acc, ix, partner_fee_total, partner_fee_percent,
             streamflow_fee_total, streamflow_fee_percent)

\* Contract::all_funds_withdrawn
all_funds_withdrawn(self) == self.amount_withdrawn = self.ix.net_amount_deposited

\* Contract::total_amount_withdrawn
total_amount_withdrawn(self) ==
    LET a == try_add(self.amount_withdrawn, self.partner_fee_withdrawn)
    IN  IF ~a.ok THEN Err ELSE try_add(a.val, self.streamflow_fee_withdrawn)

\* gross_amount with wrapping additions (reduced modulo U64_MAX + 1)
gross_amount_Wrapping(self) ==
    LET wrapping_add(a, b) == IF a > U64_MAX - b THEN a - (U64_MAX - b) - 1 ELSE a + b
    IN  Ok(wrapping_add(wrapping_add(self.ix.net_amount_deposited,
                                     self.streamflow_fee_total),
                        self.partner_fee_total))

\* Contract::gross_amount
gross_amount(self) ==
    LET a == try_add(self.ix.net_amount_deposited, self.streamflow_fee_total)
    IN  IF ~a.ok THEN Err ELSE try_add(a.val, self.partner_fee_total)

\* deposit_gross that adds the streamflow fee to streamflow_fee_withdrawn, the
\* field next to streamflow_fee_total
deposit_gross_FeeToWithdrawn(self, gross_amount_) ==
    LET partner_fee_addition ==
            calculate_fee_from_amount(gross_amount_, self.partner_fee_percent)
        strm_fee_addition ==
            calculate_fee_from_amount(gross_amount_, self.streamflow_fee_percent)
        sub1 == try_sub(gross_amount_, partner_fee_addition)
        net_amount == IF sub1.ok THEN try_sub(sub1.val, strm_fee_addition) ELSE Err
        add1 == try_add(self.ix.net_amount_deposited, net_amount.val)
        self1 == [self EXCEPT !.ix.net_amount_deposited = add1.val]
        add2 == try_add(self1.partner_fee_total, partner_fee_addition)
        self2 == [self1 EXCEPT !.partner_fee_total = add2.val]
        add3 == try_add(self2.streamflow_fee_withdrawn, strm_fee_addition)
        self3 == [self2 EXCEPT !.streamflow_fee_withdrawn = add3.val]
        end_time == calculate_end_time(self3.ix)
        self4 == [self3 EXCEPT !.end_time = end_time.val]
    IN  IF ~net_amount.ok THEN Failed(self)
        ELSE IF ~add1.ok THEN Failed(self)
        ELSE IF ~add2.ok THEN Failed(self1)
        ELSE IF ~add3.ok THEN Failed(self2)
        ELSE IF ~end_time.ok THEN Failed(self3)
        ELSE Done(self4)

\* deposit_gross that adds the whole gross amount to the principal, as
\* deposit_net does with its net amount
deposit_gross_FeesOnTop(self, gross_amount_) ==
    LET partner_fee_addition ==
            calculate_fee_from_amount(gross_amount_, self.partner_fee_percent)
        strm_fee_addition ==
            calculate_fee_from_amount(gross_amount_, self.streamflow_fee_percent)
        add1 == try_add(self.ix.net_amount_deposited, gross_amount_)
        self1 == [self EXCEPT !.ix.net_amount_deposited = add1.val]
        add2 == try_add(self1.partner_fee_total, partner_fee_addition)
        self2 == [self1 EXCEPT !.partner_fee_total = add2.val]
        add3 == try_add(self2.streamflow_fee_total, strm_fee_addition)
        self3 == [self2 EXCEPT !.streamflow_fee_total = add3.val]
        end_time == calculate_end_time(self3.ix)
        self4 == [self3 EXCEPT !.end_time = end_time.val]
    IN  IF ~add1.ok THEN Failed(self)
        ELSE IF ~add2.ok THEN Failed(self1)
        ELSE IF ~add3.ok THEN Failed(self2)
        ELSE IF ~end_time.ok THEN Failed(self3)
        ELSE Done(self4)

\* deposit_gross that assigns the net amount to the principal instead of
\* adding it
deposit_gross_PrincipalAssigned(self, gross_amount_) ==
    LET partner_fee_addition ==
            calculate_fee_from_amount(gross_amount_, self.partner_fee_percent)
        strm_fee_addition ==
            calculate_fee_from_amount(gross_amount_, self.streamflow_fee_percent)
        sub1 == try_sub(gross_amount_, partner_fee_addition)
        net_amount == IF sub1.ok THEN try_sub(sub1.val, strm_fee_addition) ELSE Err
        self1 == [self EXCEPT !.ix.net_amount_deposited = net_amount.val]
        add2 == try_add(self1.partner_fee_total, partner_fee_addition)
        self2 == [self1 EXCEPT !.partner_fee_total = add2.val]
        add3 == try_add(self2.streamflow_fee_total, strm_fee_addition)
        self3 == [self2 EXCEPT !.streamflow_fee_total = add3.val]
        end_time == calculate_end_time(self3.ix)
        self4 == [self3 EXCEPT !.end_time = end_time.val]
    IN  IF ~net_amount.ok THEN Failed(self)
        ELSE IF ~add2.ok THEN Failed(self1)
        ELSE IF ~add3.ok THEN Failed(self2)
        ELSE IF ~end_time.ok THEN Failed(self3)
        ELSE Done(self4)

\* deposit_gross that takes only the partner fee out of the gross amount
deposit_gross_OneFeeOut(self, gross_amount_) ==
    LET partner_fee_addition ==
            calculate_fee_from_amount(gross_amount_, self.partner_fee_percent)
        strm_fee_addition ==
            calculate_fee_from_amount(gross_amount_, self.streamflow_fee_percent)
        net_amount == try_sub(gross_amount_, partner_fee_addition)
        add1 == try_add(self.ix.net_amount_deposited, net_amount.val)
        self1 == [self EXCEPT !.ix.net_amount_deposited = add1.val]
        add2 == try_add(self1.partner_fee_total, partner_fee_addition)
        self2 == [self1 EXCEPT !.partner_fee_total = add2.val]
        add3 == try_add(self2.streamflow_fee_total, strm_fee_addition)
        self3 == [self2 EXCEPT !.streamflow_fee_total = add3.val]
        end_time == calculate_end_time(self3.ix)
        self4 == [self3 EXCEPT !.end_time = end_time.val]
    IN  IF ~net_amount.ok THEN Failed(self)
        ELSE IF ~add1.ok THEN Failed(self)
        ELSE IF ~add2.ok THEN Failed(self1)
        ELSE IF ~add3.ok THEN Failed(self2)
        ELSE IF ~end_time.ok THEN Failed(self3)
        ELSE Done(self4)

\* Contract::deposit_gross.  Each try_add_assign writes its field in place,
\* so a later failing step returns with the earlier fields already written.
deposit_gross(self, gross_amount_) ==
    LET partner_fee_addition ==
            calculate_fee_from_amount(gross_amount_, self.partner_fee_percent)
        strm_fee_addition ==
            calculate_fee_from_amount(gross_amount_, self.streamflow_fee_percent)
        sub1 == try_sub(gross_amount_, partner_fee_addition)
        net_amount == IF sub1.ok THEN try_sub(sub1.val, strm_fee_addition) ELSE Err
        add1 == try_add(self.ix.net_amount_deposited, net_amount.val)
        self1 == [self EXCEPT !.ix.net_amount_deposited = add1.val]
        add2 == try_add(self1.partner_fee_total, partner_fee_addition)
        self2 == [self1 EXCEPT !.partner_fee_total = add2.val]
        add3 == try_add(self2.streamflow_fee_total, strm_fee_addition)
        self3 == [self2 EXCEPT !.streamflow_fee_total = add3.val]
        end_time == calculate_end_time(self3.ix)
        self4 == [self3 EXCEPT !.end_time = end_time.val]
    IN  IF ~net_amount.ok THEN Failed(self)
        ELSE IF ~add1.ok THEN Failed(self)
        ELSE IF ~add2.ok THEN Failed(self1)
        ELSE IF ~add3.ok THEN Failed(self2)
        ELSE IF ~end_time.ok THEN Failed(self3)
        ELSE Done(self4)

\* deposit_net that takes the fees out of the net amount, as deposit_gross does
deposit_net_FeesInside(self, net_amount) ==
    LET partner_fee_addition ==
            calculate_fee_from_amount(net_amount, self.partner_fee_percent)
        strm_fee_addition ==
            calculate_fee_from_amount(net_amount, self.streamflow_fee_percent)
        sub1 == try_sub(net_amount, partner_fee_addition)
        principal == IF sub1.ok THEN try_sub(sub1.val, strm_fee_addition) ELSE Err
        add1 == try_add(self.ix.net_amount_deposited, principal.val)
        self1 == [self EXCEPT !.ix.net_amount_deposited = add1.val]
        add2 == try_add(self1.partner_fee_total, partner_fee_addition)
        self2 == [self1 EXCEPT !.partner_fee_total = add2.val]
        add3 == try_add(self2.streamflow_fee_total, strm_fee_addition)
        self3 == [self2 EXCEPT !.streamflow_fee_total = add3.val]
        end_time == calculate_end_time(self3.ix)
        self4 == [self3 EXCEPT !.end_time = end_time.val]
    IN  IF ~principal.ok THEN Failed(self)
        ELSE IF ~add1.ok THEN Failed(self)
        ELSE IF ~add2.ok THEN Failed(self1)
        ELSE IF ~add3.ok THEN Failed(self2)
        ELSE IF ~end_time.ok THEN Failed(self3)
        ELSE Done(self4)

\* Contract::deposit_net
deposit_net(self, net_amount) ==
    LET partner_fee_addition ==
            calculate_fee_from_amount(net_amount, self.partner_fee_percent)
        strm_fee_addition ==
            calculate_fee_from_amount(net_amount, self.streamflow_fee_percent)
        add1 == try_add(self.ix.net_amount_deposited, net_amount)
        self1 == [self EXCEPT !.ix.net_amount_deposited = add1.val]
        add2 == try_add(self1.partner_fee_total, partner_fee_addition)
        self2 == [self1 EXCEPT !.partner_fee_total = add2.val]
        add3 == try_add(self2.streamflow_fee_total, strm_fee_addition)
        self3 == [self2 EXCEPT !.streamflow_fee_total = add3.val]
        end_time == calculate_end_time(self3.ix)
        self4 == [self3 EXCEPT !.end_time = end_time.val]
    IN  IF ~add1.ok THEN Failed(self)
        ELSE IF ~add2.ok THEN Failed(self1)
        ELSE IF ~add3.ok THEN Failed(self2)
        ELSE IF ~end_time.ok THEN Failed(self3)
        ELSE Done(self4)

\* try_sync_balance that reconciles against the principal alone, not against
\* gross_amount()
try_sync_balance_NetOnly(self, balance) ==
    IF ~self.ix.can_topup THEN Done(self)
    ELSE LET withdrawn == total_amount_withdrawn(self)
             external_deposit ==
                 IF withdrawn.ok
                 THEN calculate_external_deposit(balance, self.ix.net_amount_deposited,
                                                 withdrawn.val)
                 ELSE Err
         IN  IF ~external_deposit.ok THEN Failed(self)
             ELSE IF external_deposit.val > 0
                  THEN deposit_gross(self, external_deposit.val)
                  ELSE Done(self)

\* try_sync_balance that reads the recorded totals before it looks at can_topup
try_sync_balance_LateGuard(self, balance) ==
    LET gross == gross_amount(self)
        withdrawn == total_amount_withdrawn(self)
        external_deposit ==
            IF gross.ok /\ withdrawn.ok
            THEN calculate_external_deposit(balance, gross.val, withdrawn.val)
            ELSE Err
    IN  IF ~external_deposit.ok THEN Failed(self)
        ELSE IF ~self.ix.can_topup THEN Done(self)
        ELSE IF external_deposit.val > 0
             THEN deposit_gross(self, external_deposit.val)
             ELSE Done(self)

\* try_sync_balance that deposits the whole observed balance, not the difference
try_sync_balance_WholeBalance(self, balance) ==
    IF ~self.ix.can_topup THEN Done(self)
    ELSE LET gross == gross_amount(self)
             withdrawn == total_amount_withdrawn(self)
             external_deposit ==
                 IF gross.ok /\ withdrawn.ok
                 THEN calculate_external_deposit(balance, gross.val, withdrawn.val)
                 ELSE Err
         IN  IF ~external_deposit.ok THEN Failed(self)
             ELSE IF external_deposit.val > 0
                  THEN deposit_gross(self, balance)
                  ELSE Done(self)

\* try_sync_balance that reports an error when there is nothing to absorb
try_sync_balance_ZeroIsError(self, balance) ==
    IF ~self.ix.can_topup THEN Done(self)
    ELSE LET gross == gross_amount(self)
             withdrawn == total_amount_withdrawn(self)
             external_deposit ==
                 IF gross.ok /\ withdrawn.ok
                 THEN calculate_external_deposit(balance, gross.val, withdrawn.val)
                 ELSE Err
         IN  IF ~external_deposit.ok THEN Failed(self)
             ELSE IF external_deposit.val > 0
                  THEN deposit_gross(self, external_deposit.val)
                  ELSE Failed(self)

\* try_sync_balance that takes a failed reconciliation for "nothing to absorb"
try_sync_balance_ErrorIsZero(self, balance) ==
    IF ~self.ix.can_topup THEN Done(self)
    ELSE LET gross == gross_amount(self)
             withdrawn == total_amount_withdrawn(self)
             external_deposit ==
                 IF gross.ok /\ withdrawn.ok
                 THEN calculate_external_deposit(balance, gross.val, withdrawn.val)
                 ELSE Err
         IN  IF ~external_deposit.ok THEN Done(self)
             ELSE IF external_deposit.val > 0
                  THEN deposit_gross(self, external_deposit.val)
                  ELSE Done(self)

\* Contract::try_sync_balance
try_sync_balance(self, balance) ==
    IF ~self.ix.can_topup THEN Done(self)
    ELSE LET gross == gross_amount(self)
             withdrawn == total_amount_withdrawn(self)
             external_deposit ==
                 IF gross.ok /\ withdrawn.ok
                 THEN calculate_external_deposit(balance, gross.val, withdrawn.val)
                 ELSE Err
         IN  IF ~external_deposit.ok THEN Failed(self)
             ELSE IF external_deposit.val > 0
                  THEN deposit_gross(self, external_deposit.val)
                  ELSE Done(self)

-----------------------------------------------------------------------------
(* The persisted record: Borsh encoding of Contract and save_account_info *)

\* An unsigned integer in `width` little-endian bytes (a value of the model has
\* at most 31 bits, so the bytes from the fifth on are 0)
LEBytes(n, width) ==
    [i \in 1..width |-> IF i <= 4 THEN (n \div 256^(i - 1)) % 256 ELSE 0]

\* A bool in one byte
BoolByte(b) == <<IF b THEN 1 ELSE 0>>

\* An f32 fee percentage in 4 little-endian bytes (IEEE 754 single precision):
\* 0.0 is 00000000, 0.25 is 3E800000, 1.0 is 3F800000, 60.0 is 42700000
F32Bytes(percent) ==
    CASE percent = 0 -> <<0, 0, 0, 0>>
      [] percent = 25 -> <<0, 0, 128, 62>>
      [] percent = 100 -> <<0, 0, 128, 63>>
      [] percent = 6000 -> <<0, 0, 112, 66>>

\* The 32 bytes of a Pubkey; a key of the model is a name, and its bytes are
\* the position of the name in this list
KEY_NAMES ==
    <<"alice", "alice_tokens", "bob", "bob_tokens", "mint", "escrow_tokens",
      "strm", "strm_tokens", "partner", "partner_tokens">>
PubkeyBytes(key) ==
    LET code == CHOOSE i \in 1..Len(KEY_NAMES) : KEY_NAMES[i] = key
    IN  [i \in 1..32 |-> code]

\* stream_name: [u8; 64], the bytes of the name followed by zeros
NameBytes(name) ==
    LET text == IF name = "TheTestoooooooooor"
                THEN <<84, 104, 101, 84, 101, 115, 116, 111, 111, 111, 111, 111,
                       111, 111, 111, 111, 111, 114>>
                ELSE <<>>
    IN  [i \in 1..64 |-> IF i <= Len(text) THEN text[i] ELSE 0]

\* BorshSerialize for CreateParams: the fields in declaration order
CreateParamsBytes(ix) ==
    LEBytes(ix.start_time, 8) \o LEBytes(ix.net_amount_deposited, 8)
      \o LEBytes(ix.period, 8) \o LEBytes(ix.amount_per_period, 8)
      \o LEBytes(ix.cliff, 8) \o LEBytes(ix.cliff_amount, 8)
      \o BoolByte(ix.cancelable_by_sender) \o BoolByte(ix.cancelable_by_recipient)
      \o BoolByte(ix.automatic_withdrawal) \o BoolByte(ix.transferable_by_sender)
      \o BoolByte(ix.transferable_by_recipient) \o BoolByte(ix.can_topup)
      \o NameBytes(ix.stream_name)

\* BorshSerialize::try_to_vec for Contract: the fields in declaration order
try_to_vec(self) ==
    LEBytes(self.magic, 8) \o LEBytes(self.version, 1)
      \o LEBytes(self.created_at, 8) \o LEBytes(self.amount_withdrawn, 8)
      \o LEBytes(self.canceled_at, 8) \o LEBytes(self.end_time, 8)
      \o LEBytes(self.last_withdrawn_at, 8)
      \o PubkeyBytes(self.sender) \o PubkeyBytes(self.sender_tokens)
      \o PubkeyBytes(self.recipient) \o PubkeyBytes(self.recipient_tokens)
      \o PubkeyBytes(self.mint) \o PubkeyBytes(self.escrow_tokens)
      \o PubkeyBytes(self.streamflow_treasury)
      \o PubkeyBytes(self.streamflow_treasury_tokens)
      \o LEBytes(self.streamflow_fee_total, 8)
      \o LEBytes(self.streamflow_fee_withdrawn, 8)
      \o F32Bytes(self.streamflow_fee_percent)
      \o PubkeyBytes(self.partner) \o PubkeyBytes(self.partner_tokens)
      \o LEBytes(self.partner_fee_total, 8)
      \o LEBytes(self.partner_fee_withdrawn, 8)
      \o F32Bytes(self.partner_fee_percent)
      \o CreateParamsBytes(self.ix)

\* The outcome of save_account_info: `data` is the buffer as the call leaves
\* it; a slice index past the end of the buffer panics before a byte is copied
Saved(data) == [ok |-> TRUE, panicked |-> FALSE, data |-> data]
Panicked(data) == [ok |-> FALSE, panicked |-> TRUE, data |-> data]

\* save_account_info that clears the buffer behind the record
save_account_info_ZeroesTail(metadata, data) ==
    LET bytes == try_to_vec(metadata)
    IN  IF Len(bytes) > Len(data) THEN Panicked(data)
        ELSE Saved([i \in 1..Len(data) |->
                       IF i <= Len(bytes) THEN bytes[i] ELSE 0])

\* save_account_info
save_account_info(metadata, data) ==
    LET bytes == try_to_vec(metadata)
    IN  IF Len(bytes) > Len(data) THEN Panicked(data)
        ELSE Saved([i \in 1..Len(data) |->
                       IF i <= Len(bytes) THEN bytes[i] ELSE data[i]])

-----------------------------------------------------------------------------
(* Escrow address *)

ESCROW_SEED_PREFIX == "strm"

\* Pubkey::find_program_address(seeds, program_id) of solana_program: a hash
\* of the seeds and the program id.  The address is kept as the input of the
\* hash, so two addresses are equal exactly when seeds and program id are.
find_program_address(seeds, program_id) ==
    [seeds |-> seeds, program_id |-> program_id]

\* find_escrow_account
find_escrow_account(version, seed, pid) ==
    find_program_address(<<ESCROW_SEED_PREFIX, seed>>, pid)

-----------------------------------------------------------------------------
(* History: the sum of everything deposited.  A sum of three u64 values    *)
(* can exceed u64::MAX, so it is kept as hi * WideBase + lo.               *)

WideBase == 2^30
WideOf(x) == [hi |-> x \div WideBase, lo |-> x % WideBase]
WideAdd(w, x) ==
    LET s == w.lo + (x % WideBase)
    IN  [hi |-> w.hi + (x \div WideBase) + (s \div WideBase), lo |-> s % WideBase]
WideSum3(a, b, c) == WideAdd(WideAdd(WideOf(a), b), c)

\* net_amount_deposited + streamflow_fee_total + partner_fee_total, unbounded
GrossSum(self) ==
    WideSum3(self.ix.net_amount_deposited, self.streamflow_fee_total,
             self.partner_fee_total)

-----------------------------------------------------------------------------
(* Inputs *)

NOWS == {7}

\* CreateAccounts: the keys Contract::new copies into the ledger
ACCOUNTS ==
    {[sender |-> "alice", sender_tokens |-> "alice_tokens",
      recipient |-> "bob", recipient_tokens |-> "bob_tokens",
      mint |-> "mint", escrow_tokens |-> "escrow_tokens",
      streamflow_treasury |-> "strm", streamflow_treasury_tokens |-> "strm_tokens",
      partner |-> "partner", partner_tokens |-> "partner_tokens"]}

\* CreateParams as the creation instruction may supply them: a zero
\* amount_per_period, a zero period, a period and a start time that make the
\* end time overflow, a cliff_amount above the deposit, an empty deposit and
\* the schedule of Scenario A are among them.
SCHEDULES ==
    {ix \in [start_time : {10, U64_MAX - 5},
             net_amount_deposited : {0, 20, 1000, 2000000000},
             period : {0, 1, 2^20},
             amount_per_period : {0, 7, 100000},
             cliff : {0, 15},
             cliff_amount : {0, 500},
             cancelable_by_sender : {FALSE},
             cancelable_by_recipient : {TRUE},
             automatic_withdrawal : {FALSE},
             transferable_by_sender : {TRUE},
             transferable_by_recipient : {TRUE},
             can_topup : BOOLEAN,
             stream_name : {"TheTestoooooooooor"}] :
        \/ ix.net_amount_deposited # 0 /\ ix.start_time = 10 /\ ix.period # 0
              /\ ix.cliff_amount = 0
        \/ ix.net_amount_deposited # 0 /\ ix.start_time # 10 /\ ix.period = 1
              /\ ix.cliff = 0 /\ ix.cliff_amount = 0 /\ ix.can_topup
        \/ ix.net_amount_deposited # 0 /\ ix.start_time = 10 /\ ix.period = 0
              /\ ix.cliff = 0 /\ ix.cliff_amount = 0 /\ ix.can_topup
        \/ ix.net_amount_deposited # 0 /\ ix.start_time = 10 /\ ix.period = 1
              /\ ix.cliff_amount # 0 /\ ~ix.can_topup
        \/ ix.net_amount_deposited = 0 /\ ix.start_time = 10 /\ ix.period = 1
              /\ ix.amount_per_period = 7 /\ ix.cliff = 0 /\ ix.cliff_amount = 0
              /\ ix.can_topup}

\* <<partner_fee_percent, streamflow_fee_percent>> in hundredths of a percent:
\* no fees, 0.25% each (STRM_FEE_DEFAULT_PERCENT), 1% and 0.25%, 60% each.
FEE_PERCENTS == {<<0, 0>>, <<25, 25>>, <<100, 25>>, <<6000, 6000>>}

\* <<partner_fee_total, streamflow_fee_total>> handed to Contract::new
FEE_TOTALS == {<<0, 0>>, <<5, 5>>, <<U64_MAX, 0>>, <<0, U64_MAX>>}

\* amounts handed to deposit_net and deposit_gross
AMOUNTS == {0, 1000, 2000000000}

\* escrow balances handed to try_sync_balance
BALANCES == {0, 3000, U64_MAX}

\* arguments of find_escrow_account: the version byte, the per-stream seed
\* (the key of the metadata account) and the program id
VERSIONS == {1, PROGRAM_VERSION}
SEEDS == {"metadata_a", "metadata_b"}
PROGRAM_IDS == {"timelock"}

\* sizes of the account buffer handed to save_account_info: shorter and
\* longer than a record
DATA_LENS == {100, 600}

\* What the account buffer holds before the call: bytes that differ from
\* place to place
Buffer(len) == [i \in 1..len |-> (7 * i + 3) % 256]

\* times at which stream_available is asked: before, at and after the starts
\* and cliffs of SCHEDULES
TIMES == {9, 10, 15, 17, U64_MAX}

-----------------------------------------------------------------------------
(* The calls *)

NoCall == [op |-> "none", arg |-> 0, ok |-> TRUE]

\* The arguments of the creating call, recorded as they were passed
Given(by, now, acc, ix, pct, tot) ==
    [by |-> by, now |-> now, acc |-> acc, ix |-> ix,
     partner_fee_total |-> tot[1], partner_fee_percent |-> pct[1],
     streamflow_fee_total |-> tot[2], streamflow_fee_percent |-> pct[2]]

NoGiven == [by |-> "none"]

Init ==
    /\ created = FALSE
    /\ ledger = NoLedger
    /\ pre = NoLedger
    /\ call = NoCall
    /\ deposited = WideOf(0)
    /\ clean = TRUE
    /\ ncalls = 0
    /\ given = NoGiven

\* Contract::new called directly (it is a pub fn of the crate)
CallNew ==
    /\ ~created
    /\ call.op \in {"none", "find_escrow_account"}
    /\ \E now \in NOWS, acc \in ACCOUNTS, ix \in SCHEDULES,
          pct \in FEE_PERCENTS, tot \in FEE_TOTALS :
          LET r == new(now, acc, ix, tot[1], pct[1], tot[2], pct[2])
          IN  /\ created' = r.ok
              /\ ledger' = r.self
              /\ pre' = ledger
              /\ call' = [op |-> "new", arg |-> 0, ok |-> r.ok]
              /\ deposited' = IF r.ok
                              THEN WideSum3(ix.net_amount_deposited, tot[2], tot[1])
                              ELSE deposited
              /\ clean' = TRUE
              /\ ncalls' = 0
              /\ given' = Given("new", now, acc, ix, pct, tot)

\* The creation instruction: its checks, then Contract::new
CallCreate ==
    /\ ~created
    /\ call.op \in {"none", "find_escrow_account"}
    /\ \E now \in NOWS, acc \in ACCOUNTS, ix \in SCHEDULES,
          pct \in FEE_PERCENTS, tot \in FEE_TOTALS :
          LET r == create(now, acc, ix, tot[1], pct[1], tot[2], pct[2])
          IN  /\ created' = r.ok
              /\ ledger' = r.self
              /\ pre' = ledger
              /\ call' = [op |-> "create", arg |-> 0, ok |-> r.ok]
              /\ deposited' = IF r.ok
                              THEN WideSum3(ix.net_amount_deposited, tot[2], tot[1])
                              ELSE deposited
              /\ clean' = TRUE
              /\ ncalls' = 0
              /\ given' = Given("create", now, acc, ix, pct, tot)

CallDepositNet ==
    /\ created
    /\ ncalls < MaxCalls
    /\ \E n \in AMOUNTS :
          LET r == deposit_net(ledger, n)
              partner_fee == calculate_fee_from_amount(n, ledger.partner_fee_percent)
              strm_fee == calculate_fee_from_amount(n, ledger.streamflow_fee_percent)
          IN  /\ ledger' = r.self
              /\ pre' = ledger
              /\ call' = [op |-> "deposit_net", arg |-> n, ok |-> r.ok]
              /\ deposited' = IF r.ok
                              THEN WideAdd(WideAdd(WideAdd(deposited, n), partner_fee),
                                           strm_fee)
                              ELSE deposited
              /\ clean' = (clean /\ r.ok)
              /\ ncalls' = ncalls + 1
              /\ UNCHANGED <<created, given>>

CallDepositGross ==
    /\ created
    /\ ncalls < MaxCalls
    /\ \E g \in AMOUNTS :
          LET r == deposit_gross(ledger, g)
          IN  /\ ledger' = r.self
              /\ pre' = ledger
              /\ call' = [op |-> "deposit_gross", arg |-> g, ok |-> r.ok]
              /\ deposited' = IF r.ok THEN WideAdd(deposited, g) ELSE deposited
              /\ clean' = (clean /\ r.ok)
              /\ ncalls' = ncalls + 1
              /\ UNCHANGED <<created, given>>

\* The external deposit try_sync_balance hands to deposit_gross (0: none)
SyncedDeposit(self, balance) ==
    LET gross == gross_amount(self)
        withdrawn == total_amount_withdrawn(self)
    IN  IF self.ix.can_topup /\ gross.ok /\ withdrawn.ok
        THEN calculate_external_deposit(balance, gross.val, withdrawn.val).val
        ELSE 0

CallTrySyncBalance ==
    /\ created
    /\ ncalls < MaxCalls
    /\ \E b \in BALANCES :
          LET r == try_sync_balance(ledger, b)
          IN  /\ ledger' = r.self
              /\ pre' = ledger
              /\ call' = [op |-> "try_sync_balance", arg |-> b, ok |-> r.ok]
              /\ deposited' = IF r.ok
                              THEN WideAdd(deposited, SyncedDeposit(ledger, b))
                              ELSE deposited
              /\ clean' = (clean /\ r.ok)
              /\ ncalls' = ncalls + 1
              /\ UNCHANGED <<created, given>>

\* save_account_info(&ledger, data)
CallSaveAccountInfo ==
    /\ created
    /\ ncalls < MaxCalls
    /\ ncalls <= MaxCallsBeforeSave
    /\ \E len \in DATA_LENS :
          LET r == save_account_info(ledger, Buffer(len))
          IN  /\ pre' = ledger
              /\ call' = [op |-> "save_account_info", arg |-> len, ok |-> r.ok,
                          panicked |-> r.panicked, data |-> r.data]
              /\ ncalls' = ncalls + 1
              /\ UNCHANGED <<created, ledger, deposited, clean, given>>

\* find_escrow_account, called for the address of the escrow account before
\* the ledger is built
CallFindEscrowAccount ==
    /\ ~created
    /\ call.op \in {"none", "find_escrow_account"}
    /\ \E version \in VERSIONS, seed \in SEEDS, pid \in PROGRAM_IDS :
          call' = [op |-> "find_escrow_account", arg |-> version, ok |-> TRUE,
                   seed |-> seed, pid |-> pid,
                   val |-> find_escrow_account(version, seed, pid)]
    /\ UNCHANGED <<created, ledger, pre, deposited, clean, ncalls, given>>

\* CreateParams::stream_available asked of the ledger's schedule (self.ix);
\* it takes &self and changes no field
CallStreamAvailable ==
    /\ created
    /\ ncalls < MaxCalls
    /\ \E now \in TIMES :
          LET r == stream_available(ledger.ix, now)
          IN  /\ pre' = ledger
              /\ call' = [op |-> "stream_available", arg |-> now, ok |-> r.ok,
                          val |-> r.val]
              /\ ncalls' = ncalls + 1
              /\ UNCHANGED <<created, ledger, deposited, clean, given>>

Next ==
    \/ CallNew
    \/ CallCreate
    \/ CallDepositNet
    \/ CallDepositGross
    \/ CallTrySyncBalance
    \/ CallStreamAvailable
    \/ CallFindEscrowAccount
    \/ CallSaveAccountInfo

Spec == Init /\ [][Next]_vars

-----------------------------------------------------------------------------
(* Properties *)

Deposits == {"deposit_net", "deposit_gross", "try_sync_balance"}

\* C1 (as stated): in every state reached from Contract::new by successful
\* deposit_net / deposit_gross / try_sync_balance calls, gross_amount() returns
\* net_amount_deposited + streamflow_fee_total + partner_fee_total, and that
\* value is the sum of everything ever deposited.
C1_GrossAmountIsSumDeposited ==
    (created /\ clean) =>
        /\ gross_amount(ledger).ok
        /\ WideOf(gross_amount(ledger).val) = GrossSum(ledger)
        /\ GrossSum(ledger) = deposited

\* C1 (amended): in every state reached from Contract::new by successful calls,
\* net_amount_deposited + streamflow_fee_total + partner_fee_total equals the sum
\* of everything ever deposited; gross_amount() returns that sum when it fits a
\* u64 and an error exactly when it does not.
C1_Conservation ==
    (created /\ clean) =>
        /\ GrossSum(ledger) = deposited
        /\ gross_amount(ledger).ok => WideOf(gross_amount(ledger).val) = GrossSum(ledger)
        /\ gross_amount(ledger).ok <=> GrossSum(ledger).hi < 2

\* C1 witness: two successful calls, the second a try_sync_balance that absorbed
\* an external deposit, and a gross amount that fits a u64.
C1_Witness ==
    /\ created /\ clean /\ ncalls >= 2
    /\ call.op = "try_sync_balance"
    /\ ledger.ix.net_amount_deposited > pre.ix.net_amount_deposited
    /\ ledger.partner_fee_total > pre.partner_fee_total
    /\ gross_amount(ledger).ok

\* C2: whenever deposit_net, deposit_gross or try_sync_balance returns an error,
\* every ledger field has the value it had before the call.
C2_AtomicOnFailure ==
    (created /\ call.op \in Deposits /\ ~call.ok) => ledger = pre

\* C3: after a successful try_sync_balance(b) on a ledger with can_topup = true,
\* a second try_sync_balance(b) succeeds and changes no ledger field.
C3_SyncIdempotent ==
    (created /\ call.op = "try_sync_balance" /\ call.ok /\ pre.ix.can_topup) =>
        try_sync_balance(ledger, call.arg) = Done(ledger)

\* C3 witness: a successful try_sync_balance that absorbed an external deposit
\* with both fees taken from it.
C3_Witness ==
    /\ created /\ call.op = "try_sync_balance" /\ call.ok /\ pre.ix.can_topup
    /\ ledger.ix.net_amount_deposited > pre.ix.net_amount_deposited
    /\ ledger.partner_fee_total > pre.partner_fee_total
    /\ ledger.streamflow_fee_total > pre.streamflow_fee_total

\* C4: with can_topup = false, try_sync_balance(b) succeeds and leaves every
\* ledger field unchanged, whatever b is and also when gross_amount() overflows.
C4_SyncDisabledNoOp ==
    (created /\ call.op = "try_sync_balance" /\ ~pre.ix.can_topup) =>
        (call.ok /\ ledger = pre)

\* C4 witness: try_sync_balance on a ledger with can_topup = false whose
\* gross_amount() overflows, with an observed balance above the principal.
C4_Witness ==
    /\ created /\ call.op = "try_sync_balance" /\ ~pre.ix.can_topup
    /\ ~gross_amount(pre).ok
    /\ call.arg > pre.ix.net_amount_deposited

\* C5: a successful deposit_gross(g) adds fee_from_amount(g, partner percent) to
\* partner_fee_total, fee_from_amount(g, streamflow percent) to
\* streamflow_fee_total and g minus both fees to net_amount_deposited, so the
\* gross sum grows by exactly g; end_time is calculate_end_time() of the
\* updated schedule.
C5_DepositGrossEffect ==
    (created /\ call.op = "deposit_gross" /\ call.ok) =>
        LET partner_fee == calculate_fee_from_amount(call.arg, pre.partner_fee_percent)
            strm_fee == calculate_fee_from_amount(call.arg, pre.streamflow_fee_percent)
        IN  /\ ledger.partner_fee_total - pre.partner_fee_total = partner_fee
            /\ ledger.streamflow_fee_total - pre.streamflow_fee_total = strm_fee
            /\ ledger.ix.net_amount_deposited - pre.ix.net_amount_deposited
                   = call.arg - partner_fee - strm_fee
            /\ GrossSum(ledger) = WideAdd(GrossSum(pre), call.arg)
            /\ calculate_end_time(ledger.ix) = Ok(ledger.end_time)

\* C5 witness: a successful deposit_gross with two different non-zero fees that
\* moved end_time.
C5_Witness ==
    /\ created /\ call.op = "deposit_gross" /\ call.ok
    /\ ledger.partner_fee_total - pre.partner_fee_total
           > ledger.streamflow_fee_total - pre.streamflow_fee_total
    /\ ledger.streamflow_fee_total > pre.streamflow_fee_total
    /\ ledger.end_time > pre.end_time

\* C6 (as stated, Scenario D): with both fee percents 0.25, a successful
\* deposit_gross(1000) adds 2 to partner_fee_total, 2 to streamflow_fee_total
\* and 995 to net_amount_deposited.
C6_ScenarioD_995 ==
    (created /\ call.op = "deposit_gross" /\ call.ok /\ call.arg = 1000
       /\ pre.partner_fee_percent = 25 /\ pre.streamflow_fee_percent = 25) =>
        /\ ledger.partner_fee_total - pre.partner_fee_total = 2
        /\ ledger.streamflow_fee_total - pre.streamflow_fee_total = 2
        /\ ledger.ix.net_amount_deposited - pre.ix.net_amount_deposited = 995

\* C6 (amended, Scenario D): with both fee percents 0.25, a successful
\* deposit_gross(1000) adds 2 to partner_fee_total, 2 to streamflow_fee_total
\* and 996 to net_amount_deposited (1000 less the two fees of 2).
C6_ScenarioD ==
    (created /\ call.op = "deposit_gross" /\ call.ok /\ call.arg = 1000
       /\ pre.partner_fee_percent = 25 /\ pre.streamflow_fee_percent = 25) =>
        /\ ledger.partner_fee_total - pre.partner_fee_total = 2
        /\ ledger.streamflow_fee_total - pre.streamflow_fee_total = 2
        /\ ledger.ix.net_amount_deposited - pre.ix.net_amount_deposited = 996

\* C6 witness: Scenario D has run: deposit_gross(1000) succeeded on a ledger
\* with both fee percents 0.25.
C6_Witness ==
    /\ created /\ call.op = "deposit_gross" /\ call.ok /\ call.arg = 1000
    /\ pre.partner_fee_percent = 25 /\ pre.streamflow_fee_percent = 25
    /\ ledger.ix.net_amount_deposited = pre.ix.net_amount_deposited + 996

\* C7: a successful deposit_net(n) adds exactly n to net_amount_deposited and, on
\* top of n, fee_from_amount(n, partner percent) to partner_fee_total and
\* fee_from_amount(n, streamflow percent) to streamflow_fee_total, so the gross
\* sum grows by n plus both fees; end_time is calculate_end_time() of the
\* updated schedule.
C7_DepositNetEffect ==
    (created /\ call.op = "deposit_net" /\ call.ok) =>
        LET partner_fee == calculate_fee_from_amount(call.arg, pre.partner_fee_percent)
            strm_fee == calculate_fee_from_amount(call.arg, pre.streamflow_fee_percent)
        IN  /\ ledger.ix.net_amount_deposited - pre.ix.net_amount_deposited = call.arg
            /\ ledger.partner_fee_total - pre.partner_fee_total = partner_fee
            /\ ledger.streamflow_fee_total - pre.streamflow_fee_total = strm_fee
            /\ GrossSum(ledger)
                   = WideAdd(WideAdd(WideAdd(GrossSum(pre), call.arg), partner_fee), strm_fee)
            /\ calculate_end_time(ledger.ix) = Ok(ledger.end_time)

\* C7 witness: a successful deposit_net with non-zero fees that moved end_time.
C7_Witness ==
    /\ created /\ call.op = "deposit_net" /\ call.ok /\ call.arg > 0
    /\ ledger.partner_fee_total > pre.partner_fee_total
    /\ ledger.streamflow_fee_total > pre.streamflow_fee_total
    /\ ledger.end_time > pre.end_time

\* C8: in every reachable state, after Contract::new and after every
\* deposit_net, deposit_gross and try_sync_balance call, successful or failed,
\* end_time equals calculate_end_time() of the ledger's current schedule.
C8_EndTimeDerived ==
    created => calculate_end_time(ledger.ix) = Ok(ledger.end_time)

\* C9: in every state reached from Contract::new by deposit_net / deposit_gross /
\* try_sync_balance calls, amount_withdrawn <= net_amount_deposited,
\* streamflow_fee_withdrawn <= streamflow_fee_total and
\* partner_fee_withdrawn <= partner_fee_total.
C9_WithdrawnWithinTotals ==
    created =>
        /\ ledger.amount_withdrawn <= ledger.ix.net_amount_deposited
        /\ ledger.streamflow_fee_withdrawn <= ledger.streamflow_fee_total
        /\ ledger.partner_fee_withdrawn <= ledger.partner_fee_total

\* C9 witness: a ledger after a deposit_gross and a deposit_net that both raised
\* the principal and the fee totals.
C9_Witness ==
    /\ created /\ ncalls >= 2 /\ clean
    /\ call.op = "deposit_net" /\ pre.end_time < ledger.end_time
    /\ pre.streamflow_fee_total < ledger.streamflow_fee_total
    /\ ledger.partner_fee_total > 5

Creations == {"new", "create"}

\* C11: for every schedule with period > 0 and amount_per_period > 0 on which
\* calculate_end_time() succeeds, the result is at least the effective start
\* (cliff when non-zero, start_time otherwise); and of two schedules that differ
\* only in net_amount_deposited, the one with the larger deposit does not end
\* earlier.
C11_EndTimeBounds ==
    (created /\ ledger.ix.period > 0 /\ ledger.ix.amount_per_period > 0) =>
        LET ix == ledger.ix
            start == IF ix.cliff > 0 THEN ix.cliff ELSE ix.start_time
            nets == {0, 6, 7, 8, 20, 1000, 99999, 100000, 2000000000, U64_MAX,
                     pre.ix.net_amount_deposited, ix.net_amount_deposited}
            ends == {[net |-> n,
                      end |-> calculate_end_time([ix EXCEPT !.net_amount_deposited = n])]
                        : n \in nets}
        IN  /\ calculate_end_time(ix).ok => calculate_end_time(ix).val >= start
            /\ \A e1 \in ends, e2 \in ends :
                  (e1.net <= e2.net /\ e1.end.ok /\ e2.end.ok) =>
                      /\ e1.end.val >= start
                      /\ e1.end.val <= e2.end.val

\* C11 witness: a successful deposit on a schedule with a cliff raised
\* net_amount_deposited and moved the end time later.
C11_Witness ==
    /\ created /\ call.op \in Deposits /\ call.ok
    /\ ledger.ix.period > 0 /\ ledger.ix.amount_per_period > 0
    /\ ledger.ix.cliff > 0
    /\ ledger.ix.net_amount_deposited > pre.ix.net_amount_deposited
    /\ calculate_end_time(pre.ix).ok /\ calculate_end_time(ledger.ix).ok
    /\ calculate_end_time(ledger.ix).val > calculate_end_time(pre.ix).val

\* C12: when amount_per_period = 0, calculate_end_time() fails (division by
\* zero), Contract::new fails and yields no ledger, and the creation of the
\* stream is rejected.
C12_ZeroAmountPerPeriodRejected ==
    (call.op \in Creations /\ given.ix.amount_per_period = 0) =>
        /\ ~calculate_end_time(given.ix).ok
        /\ ~new(given.now, given.acc, given.ix, given.partner_fee_total,
                given.partner_fee_percent, given.streamflow_fee_total,
                given.streamflow_fee_percent).ok
        /\ ~call.ok
        /\ ~created
        /\ ledger = NoLedger

\* C12 witness: the creation instruction was given amount_per_period = 0 with an
\* otherwise sound schedule (deposit 2_000_000_000, period 1, no cliff) and was
\* rejected.
C12_Witness ==
    /\ call.op = "create" /\ ~call.ok /\ ~created
    /\ given.ix.amount_per_period = 0
    /\ given.ix.net_amount_deposited = 2000000000
    /\ given.ix.period = 1 /\ given.ix.cliff = 0 /\ given.ix.cliff_amount = 0
    /\ given.ix.start_time = 10

MoreTimes == TIMES \cup {0, 11, 16, 2^20 + 10, 2^21 + 15, U64_MAX - 5}

\* C15 as stated: stream_available(now1) <= stream_available(now2) for every
\* now1 <= now2, and stream_available(now) is 0 for every now at or before
\* the effective start.
C15_ZeroUntilStart ==
    (call.op = "stream_available") =>
        LET ix == ledger.ix
            now == call.arg
        IN  /\ \A now2 \in MoreTimes :
                  (now <= now2 /\ call.ok /\ stream_available(ix, now2).ok) =>
                      call.val <= stream_available(ix, now2).val
            /\ now <= start_of(ix) => (call.ok /\ call.val = 0)

\* C15: over the times at which it succeeds stream_available is
\* non-decreasing in now; at the effective start it is 0 when period > 0;
\* before the effective start it fails with an error and gives no amount.
C15_MonotoneFromStart ==
    (call.op = "stream_available") =>
        LET ix == ledger.ix
            now == call.arg
        IN  /\ \A now2 \in MoreTimes :
                  (now <= now2 /\ call.ok /\ stream_available(ix, now2).ok) =>
                      call.val <= stream_available(ix, now2).val
            /\ \A now1 \in MoreTimes :
                  (now1 <= now /\ call.ok /\ stream_available(ix, now1).ok) =>
                      stream_available(ix, now1).val <= call.val
            /\ (now = start_of(ix) /\ ix.period > 0) => (call.ok /\ call.val = 0)
            /\ now < start_of(ix) => ~call.ok

\* C15 witness: stream_available asked at the effective start of a schedule
\* of 7 per second answered 0, and the same schedule gives 49 seven seconds
\* later.
C15_Witness ==
    /\ call.op = "stream_available" /\ call.ok /\ call.val = 0
    /\ call.arg = start_of(ledger.ix)
    /\ ledger.ix.period = 1 /\ ledger.ix.amount_per_period = 7
    /\ stream_available(ledger.ix, 17) = Ok(49)

\* C16 as stated: stream_available fails when now < effective start or
\* period = 0, and in every other case returns
\* floor((now - start) / period) * amount_per_period.
C16_FailsOnlyBeforeStartOrZeroPeriod ==
    (call.op = "stream_available") =>
        LET ix == ledger.ix
            now == call.arg
            start == IF ix.cliff > 0 THEN ix.cliff ELSE ix.start_time
        IN  IF now < start \/ ix.period = 0
            THEN ~call.ok
            ELSE /\ call.ok
                 /\ call.val
                      = ((now - start) \div ix.period) * ix.amount_per_period

\* C16: stream_available fails when now < effective start, when period = 0,
\* or when floor((now - start) / period) * amount_per_period exceeds
\* u64::MAX; otherwise it returns that product; the answer is the same for
\* every cliff_amount and every net_amount_deposited.
C16_StreamAvailableValue ==
    (call.op = "stream_available") =>
        LET ix == ledger.ix
            now == call.arg
            start == IF ix.cliff > 0 THEN ix.cliff ELSE ix.start_time
            app == ix.amount_per_period
        IN  /\ IF now < start \/ ix.period = 0
               THEN ~call.ok
               ELSE LET periods_passed == (now - start) \div ix.period
                    IN  IF app > 0 /\ periods_passed > U64_MAX \div app
                        THEN ~call.ok
                        ELSE call.ok /\ call.val = periods_passed * app
            /\ \A ca \in {0, 500, U64_MAX}, n \in {0, 20, 1000, U64_MAX} :
                  LET other == [ix EXCEPT !.cliff_amount = ca,
                                          !.net_amount_deposited = n]
                      r == stream_available(other, now)
                  IN  r.ok = call.ok /\ r.val = call.val

\* C16 witness: a schedule of 7 per second from 10 with a cliff unlock of 500
\* was asked at 17 and answered 49.
C16_Witness ==
    /\ call.op = "stream_available" /\ call.arg = 17
    /\ call.ok /\ call.val = 49
    /\ ledger.ix.cliff = 0 /\ ledger.ix.start_time = 10
    /\ ledger.ix.period = 1 /\ ledger.ix.amount_per_period = 7
    /\ ledger.ix.cliff_amount = 500

FeeBase ==
    IF call.op = "try_sync_balance" THEN SyncedDeposit(pre, call.arg) ELSE call.arg

\* fee percentages from 0% to 100%, in hundredths of a percent
PERCENTS == {0, 1, 25, 100, 3333, 6000, 9999, 10000}

\* pairs <<partner, streamflow>> of fee percentages that sum to at most 100%
PERCENT_PAIRS ==
    {<<0, 0>>, <<25, 25>>, <<100, 25>>, <<3333, 6667>>, <<5000, 5000>>,
     <<9999, 1>>, <<0, 10000>>, <<10000, 0>>}

\* floor(amount * percent / 10000) computed from the base-100 digits of both
\* factors: with amount = 100 a1 + a0 and percent = 100 p1 + p0 the product is
\* 10000 a1 p1 + 100 (a1 p0 + a0 p1) + a0 p0
FloorOfProduct(amount, percent) ==
    LET a1 == amount \div 100
        a0 == amount % 100
        p1 == percent \div 100
        p0 == percent % 100
    IN  a1 * p1 + (a1 * p0 + a0 * p1 + (a0 * p0) \div 100) \div 100

C19_FeesAboveGrossRejected ==
    (call.op = "deposit_gross") =>
        LET g == call.arg
            pf == calculate_fee_from_amount(g, pre.partner_fee_percent)
            sf == calculate_fee_from_amount(g, pre.streamflow_fee_percent)
        IN  (pf > g \/ sf > g - pf) =>
                /\ ~call.ok
                /\ ledger.ix.net_amount_deposited = pre.ix.net_amount_deposited
                /\ ledger.partner_fee_total = pre.partner_fee_total
                /\ ledger.streamflow_fee_total = pre.streamflow_fee_total
                /\ ledger.end_time = pre.end_time
                /\ ledger = pre

\* C19 witness: deposit_gross(1000) with both fees at 60% (600 + 600 > 1000)
\* failed on a ledger that had room for the deposit, and left it as it was.
C19_Witness ==
    /\ call.op = "deposit_gross" /\ call.arg = 1000 /\ ~call.ok
    /\ pre.partner_fee_percent = 6000 /\ pre.streamflow_fee_percent = 6000
    /\ pre.ix.net_amount_deposited = 1000
    /\ pre.partner_fee_total = 5 /\ pre.streamflow_fee_total = 5
    /\ ledger = pre

\* C20: with can_topup set and an observed balance above gross_amount() -
\* total_amount_withdrawn(), try_sync_balance(balance) does what
\* deposit_gross(delta) does for delta = balance - (gross_amount() -
\* total_amount_withdrawn()): same outcome, same ledger; on success the fees
\* of delta go to the fee totals, the rest to the principal, and end_time is
\* recomputed.
C20_SyncIsDepositGrossOfDelta ==
    (call.op = "try_sync_balance" /\ pre.ix.can_topup
       /\ gross_amount(pre).ok /\ total_amount_withdrawn(pre).ok) =>
        LET gross == gross_amount(pre).val
            withdrawn == total_amount_withdrawn(pre).val
        IN  (withdrawn <= gross /\ call.arg > gross - withdrawn) =>
                LET delta == call.arg - (gross - withdrawn)
                    r == deposit_gross(pre, delta)
                    pf == calculate_fee_from_amount(delta, pre.partner_fee_percent)
                    sf == calculate_fee_from_amount(delta, pre.streamflow_fee_percent)
                IN  /\ call.ok = r.ok
                    /\ ledger = r.self
                    /\ call.ok =>
                          /\ ledger.partner_fee_total - pre.partner_fee_total = pf
                          /\ ledger.streamflow_fee_total
                               - pre.streamflow_fee_total = sf
                          /\ ledger.ix.net_amount_deposited
                               - pre.ix.net_amount_deposited = delta - pf - sf
                          /\ calculate_end_time(ledger.ix).ok
                          /\ ledger.end_time = calculate_end_time(ledger.ix).val

\* C20 witness: a ledger holding 1000 + 5 + 5 with fees of 1% and 0.25% saw a
\* balance of 3000; try_sync_balance took the 1990 above the expected 1010 as
\* a gross deposit: fees 19 and 4, principal + 1967, end time moved.
C20_Witness ==
    /\ call.op = "try_sync_balance" /\ call.ok /\ call.arg = 3000
    /\ pre.ix.can_topup
    /\ pre.ix.net_amount_deposited = 1000
    /\ pre.partner_fee_total = 5 /\ pre.streamflow_fee_total = 5
    /\ pre.partner_fee_percent = 100 /\ pre.streamflow_fee_percent = 25
    /\ ledger.partner_fee_total = 24
    /\ ledger.streamflow_fee_total = 9
    /\ ledger.ix.net_amount_deposited = 2967
    /\ ledger.end_time > pre.end_time

\* C21: with can_topup set and an observed balance at or below gross_amount() -
\* total_amount_withdrawn(), the external deposit is 0 and try_sync_balance
\* returns success with every ledger field unchanged.
C21_NothingToAbsorb ==
    (call.op = "try_sync_balance" /\ pre.ix.can_topup
       /\ gross_amount(pre).ok /\ total_amount_withdrawn(pre).ok) =>
        LET gross == gross_amount(pre).val
            withdrawn == total_amount_withdrawn(pre).val
        IN  (withdrawn <= gross /\ call.arg <= gross - withdrawn) =>
                /\ calculate_external_deposit(call.arg, gross, withdrawn) = Ok(0)
                /\ call.ok
                /\ ledger = pre

\* C21 witness: a ledger that can be topped up and records 2_000_000_010 saw
\* a balance of 3000; try_sync_balance succeeded and changed nothing.
C21_Witness ==
    /\ call.op = "try_sync_balance" /\ call.arg = 3000 /\ call.ok
    /\ pre.ix.can_topup
    /\ pre.ix.net_amount_deposited = 2000000000
    /\ pre.partner_fee_total = 5 /\ pre.streamflow_fee_total = 5
    /\ gross_amount(pre) = Ok(2000000010)
    /\ ledger = pre

Overdrawn(self) == [self EXCEPT !.amount_withdrawn = U64_MAX]

ExactSum(x, y) == WideAdd(WideOf(x), y)
FitsU64(w) == w.hi < 2

\* r is the exact value of start + floor(net / amount_per_period) * period when
\* that is a u64, and an error when it is not or when amount_per_period = 0
IsExactEndTime(ix, r) ==
    LET start == IF ix.cliff > 0 THEN ix.cliff ELSE ix.start_time
    IN  IF ix.amount_per_period = 0 THEN ~r.ok
        ELSE LET q == ix.net_amount_deposited \div ix.amount_per_period
             IN  IF q > 0 /\ ix.period > (U64_MAX - start) \div q
                 THEN ~r.ok
                 ELSE /\ r.ok
                      /\ r.val >= start /\ r.val <= U64_MAX
                      /\ IF q = 0 \/ ix.period = 0 THEN r.val = start
                         ELSE /\ (r.val - start) % ix.period = 0
                              /\ (r.val - start) \div ix.period = q

\* The ledger with everything it records paid out
AllPaidOut(self) ==
    [self EXCEPT !.amount_withdrawn = self.ix.net_amount_deposited,
                 !.partner_fee_withdrawn = self.partner_fee_total,
                 !.streamflow_fee_withdrawn = self.streamflow_fee_total]

\* C24: gross_amount(), total_amount_withdrawn(), calculate_end_time(),
\* stream_available() and the additions of deposit_net / deposit_gross give the
\* exact result in the integers when it is a u64 and an error when it is not;
\* no result and no stored field is a wrapped or truncated value or the
\* outcome of a division by zero.
C24_CheckedArithmetic ==
    /\ created =>
          /\ gross_amount(ledger).ok <=> FitsU64(GrossSum(ledger))
          /\ gross_amount(ledger).ok =>
                WideOf(gross_amount(ledger).val) = GrossSum(ledger)
          /\ total_amount_withdrawn(AllPaidOut(ledger)).ok <=> FitsU64(GrossSum(ledger))
          /\ total_amount_withdrawn(AllPaidOut(ledger)).ok =>
                WideOf(total_amount_withdrawn(AllPaidOut(ledger)).val) = GrossSum(ledger)
          /\ total_amount_withdrawn(ledger) = Ok(0)
          /\ IsExactEndTime(ledger.ix, calculate_end_time(ledger.ix))
    /\ (call.op = "stream_available") =>
          LET ix == ledger.ix
              start == IF ix.cliff > 0 THEN ix.cliff ELSE ix.start_time
          IN  /\ (call.arg < start \/ ix.period = 0) => ~call.ok
              /\ call.ok =>
                    /\ call.val <= U64_MAX
                    /\ IF ix.amount_per_period = 0 THEN call.val = 0
                       ELSE /\ call.val % ix.amount_per_period = 0
                            /\ call.val \div ix.amount_per_period
                                 = (call.arg - start) \div ix.period
              /\ (~call.ok /\ call.arg >= start /\ ix.period > 0) =>
                    /\ ix.amount_per_period > 0
                    /\ (call.arg - start) \div ix.period
                         > U64_MAX \div ix.amount_per_period
    /\ (call.op \in {"deposit_net", "deposit_gross"}) =>
          LET g == call.arg
              pf == calculate_fee_from_amount(g, pre.partner_fee_percent)
              sf == calculate_fee_from_amount(g, pre.streamflow_fee_percent)
              underflow == call.op = "deposit_gross" /\ (pf > g \/ sf > g - pf)
              principal == IF call.op = "deposit_net" THEN g ELSE g - pf - sf
              net == ExactSum(pre.ix.net_amount_deposited, principal)
              pft == ExactSum(pre.partner_fee_total, pf)
              sft == ExactSum(pre.streamflow_fee_total, sf)
          IN  IF underflow THEN ~call.ok /\ ledger = pre
              ELSE /\ \/ ledger.ix.net_amount_deposited = pre.ix.net_amount_deposited
                      \/ FitsU64(net) /\ WideOf(ledger.ix.net_amount_deposited) = net
                   /\ \/ ledger.partner_fee_total = pre.partner_fee_total
                      \/ FitsU64(pft) /\ WideOf(ledger.partner_fee_total) = pft
                   /\ \/ ledger.streamflow_fee_total = pre.streamflow_fee_total
                      \/ FitsU64(sft) /\ WideOf(ledger.streamflow_fee_total) = sft
                   /\ call.ok =>
                         /\ FitsU64(net) /\ WideOf(ledger.ix.net_amount_deposited) = net
                         /\ FitsU64(pft) /\ WideOf(ledger.partner_fee_total) = pft
                         /\ FitsU64(sft) /\ WideOf(ledger.streamflow_fee_total) = sft
                         /\ IsExactEndTime(ledger.ix, Ok(ledger.end_time))
                   /\ ~call.ok =>
                         \/ ~FitsU64(net) \/ ~FitsU64(pft) \/ ~FitsU64(sft)
                         \/ ~calculate_end_time(ledger.ix).ok

\* C24 witness: deposit_net(2_000_000_000) on a principal of 2_000_000_000 has
\* no u64 result (31-bit here); the call returned an error and the principal
\* is not a wrapped sum.
C24_Witness ==
    /\ call.op = "deposit_net" /\ call.arg = 2000000000 /\ ~call.ok
    /\ pre.ix.net_amount_deposited = 2000000000
    /\ ~FitsU64(ExactSum(pre.ix.net_amount_deposited, call.arg))
    /\ ledger.ix.net_amount_deposited = 2000000000

\* The fields deposit_net, deposit_gross and try_sync_balance may write, set
\* to the values they have in `to`
WithDepositFieldsOf(self, to) ==
    [self EXCEPT !.ix.net_amount_deposited = to.ix.net_amount_deposited,
                 !.partner_fee_total = to.partner_fee_total,
                 !.streamflow_fee_total = to.streamflow_fee_total,
                 !.end_time = to.end_time]

\* C25: deposit_net, deposit_gross and try_sync_balance change only
\* net_amount_deposited, partner_fee_total, streamflow_fee_total and end_time;
\* every other field has, in every reachable state, the value Contract::new
\* gave it.
C25_DepositFrame ==
    /\ (created /\ call.op \in Deposits) =>
           WithDepositFieldsOf(ledger, pre) = pre
    /\ created =>
           LET made == new(given.now, given.acc, given.ix, given.partner_fee_total,
                           given.partner_fee_percent, given.streamflow_fee_total,
                           given.streamflow_fee_percent).self
           IN  /\ WithDepositFieldsOf(ledger, made) = made
               /\ ledger.magic = 0 /\ ledger.version = PROGRAM_VERSION
               /\ ledger.created_at = given.now
               /\ ledger.sender = given.acc.sender
               /\ ledger.recipient = given.acc.recipient
               /\ ledger.mint = given.acc.mint
               /\ ledger.escrow_tokens = given.acc.escrow_tokens
               /\ ledger.partner = given.acc.partner
               /\ ledger.streamflow_treasury = given.acc.streamflow_treasury
               /\ ledger.partner_fee_percent = given.partner_fee_percent
               /\ ledger.streamflow_fee_percent = given.streamflow_fee_percent
               /\ ledger.amount_withdrawn = 0
               /\ ledger.partner_fee_withdrawn = 0
               /\ ledger.streamflow_fee_withdrawn = 0
               /\ ledger.canceled_at = 0 /\ ledger.last_withdrawn_at = 0
               /\ [ledger.ix EXCEPT !.net_amount_deposited = 0]
                    = [given.ix EXCEPT !.net_amount_deposited = 0]

\* C25 witness: two successful deposits, the second a deposit_gross, changed
\* the principal, both fee totals and the end time of a ledger.
C25_Witness ==
    /\ created /\ clean /\ ncalls = 2 /\ call.op = "deposit_gross"
    /\ ledger.ix.net_amount_deposited > pre.ix.net_amount_deposited
    /\ pre.ix.net_amount_deposited > given.ix.net_amount_deposited
    /\ ledger.partner_fee_total > pre.partner_fee_total
    /\ ledger.streamflow_fee_total > pre.streamflow_fee_total
    /\ ledger.end_time > pre.end_time

\* C26: once amount_withdrawn = net_amount_deposited (all_funds_withdrawn()) or
\* canceled_at # 0, no later deposit_net, deposit_gross or try_sync_balance
\* changes a ledger field, and all_funds_withdrawn() stays true.
C26_TerminalLedgerUnchanged ==
    (created /\ call.op \in Deposits
       /\ (all_funds_withdrawn(pre) \/ pre.canceled_at # 0)) =>
        /\ ledger = pre
        /\ all_funds_withdrawn(ledger)

\* C27: for a schedule with period > 0 and amount_per_period > 0 whose end time
\* is defined, stream_available(calculate_end_time()) is
\* floor(net_amount_deposited / amount_per_period) * amount_per_period, at most
\* net_amount_deposited and less than one amount_per_period below it; and
\* stream_available(now) <= net_amount_deposited for every now from the
\* effective start to the end time.
C27_VestedAtEndTime ==
    (created /\ ledger.ix.period > 0 /\ ledger.ix.amount_per_period > 0
       /\ calculate_end_time(ledger.ix).ok) =>
        LET ix == ledger.ix
            net == ix.net_amount_deposited
            start == IF ix.cliff > 0 THEN ix.cliff ELSE ix.start_time
            end == calculate_end_time(ix).val
            at_end == stream_available(ix, end)
            nows == MoreTimes \cup {start, end, IF end > start THEN end - 1 ELSE end,
                                    IF end - start > ix.period
                                    THEN start + ix.period ELSE start}
        IN  /\ at_end.ok
            /\ at_end.val = (net \div ix.amount_per_period) * ix.amount_per_period
            /\ at_end.val <= net
            /\ net - at_end.val < ix.amount_per_period
            /\ \A now \in nows :
                  (start <= now /\ now <= end) =>
                      /\ stream_available(ix, now).ok
                      /\ stream_available(ix, now).val <= net
            /\ (call.op = "stream_available" /\ call.arg = end) =>
                  (call.ok /\ call.val = at_end.val)

\* C27 witness: a deposit of 20 at 7 per second from the cliff at 15 ends at
\* 17; asked at 17, stream_available answered 14, which leaves 6.
C27_Witness ==
    /\ call.op = "stream_available" /\ call.ok
    /\ ledger.ix.cliff = 15 /\ ledger.ix.period = 1
    /\ ledger.ix.amount_per_period = 7 /\ ledger.ix.net_amount_deposited = 20
    /\ calculate_end_time(ledger.ix) = Ok(17)
    /\ call.arg = 17 /\ call.val = 14

\* C30: after a successful try_sync_balance(b) on a ledger with can_topup and
\* b >= gross_amount() - total_amount_withdrawn() before the call,
\* gross_amount() - total_amount_withdrawn() = b.
C30_RecordedEqualsObserved ==
    (call.op = "try_sync_balance" /\ call.ok /\ pre.ix.can_topup
       /\ gross_amount(pre).ok /\ total_amount_withdrawn(pre).ok
       /\ total_amount_withdrawn(pre).val <= gross_amount(pre).val
       /\ call.arg >= gross_amount(pre).val - total_amount_withdrawn(pre).val) =>
        /\ gross_amount(ledger).ok
        /\ total_amount_withdrawn(ledger).ok
        /\ total_amount_withdrawn(ledger).val <= gross_amount(ledger).val
        /\ gross_amount(ledger).val - total_amount_withdrawn(ledger).val = call.arg

\* C30 witness: a ledger recording 20 with fees of 0.25% each saw u64::MAX in
\* escrow; after the successful sync it records u64::MAX.
C30_Witness ==
    /\ call.op = "try_sync_balance" /\ call.ok /\ call.arg = U64_MAX
    /\ pre.ix.can_topup
    /\ gross_amount(pre) = Ok(20)
    /\ pre.partner_fee_percent = 25 /\ pre.streamflow_fee_percent = 25
    /\ ledger.partner_fee_total > 0 /\ ledger.streamflow_fee_total > 0
    /\ gross_amount(ledger) = Ok(U64_MAX)

\* C28: find_escrow_account(version, seed, pid) is a function of its
\* arguments, derives the address from the prefix "strm", the seed and the
\* version byte, and so feeds a different input to the derivation when only
\* the version changes.
C28_VersionIsASeed ==
    (call.op = "find_escrow_account") =>
        /\ find_escrow_account(call.arg, call.seed, call.pid) = call.val
        /\ call.val.seeds[1] = ESCROW_SEED_PREFIX
        /\ \E i \in DOMAIN call.val.seeds : call.val.seeds[i] = call.seed
        /\ call.val.program_id = call.pid
        /\ \A version \in VERSIONS :
              version # call.arg =>
                  find_escrow_account(version, call.seed, call.pid).seeds
                      # call.val.seeds

\* C28 witness: the escrow address of a stream was asked for version 1, and
\* the address for PROGRAM_VERSION with the same seed and program is the same.
C28_Witness ==
    /\ call.op = "find_escrow_account" /\ call.arg = 1
    /\ call.seed = "metadata_a"
    /\ call.val = find_escrow_account(PROGRAM_VERSION, "metadata_a", call.pid)
    /\ call.val # find_escrow_account(1, "metadata_b", call.pid)

\* C29: save_account_info writes the serialized ledger to the first len bytes
\* of the buffer, len being the serialized length, leaves every byte from len
\* on as it was, and writes nothing outside the buffer.
C29_SavePreservesTail ==
    (call.op = "save_account_info") =>
        LET bytes == try_to_vec(ledger)
            before == Buffer(call.arg)
        IN  /\ Len(call.data) = call.arg
            /\ call.ok =>
                  /\ Len(bytes) <= call.arg
                  /\ \A i \in 1..Len(bytes) : call.data[i] = bytes[i]
                  /\ \A i \in (Len(bytes) + 1)..call.arg : call.data[i] = before[i]
            /\ ~call.ok =>
                  /\ call.panicked
                  /\ Len(bytes) > call.arg
                  /\ call.data = before

\* C29 witness: a record of 527 bytes was saved into a buffer of 600; the
\* version byte and the first byte of the name are in place and the last byte
\* of the buffer is the one that was there.
C29_Witness ==
    /\ call.op = "save_account_info" /\ call.ok /\ call.arg = 600
    /\ Len(try_to_vec(ledger)) = 527
    /\ call.data[9] = PROGRAM_VERSION
    /\ call.data[464] = 84
    /\ call.data[528] = Buffer(600)[528]
    /\ call.data[600] = Buffer(600)[600]
    /\ call.data[528] # 0

\* Two try_sync_balance calls on one record, not serialized: each computes its
\* external deposit from the totals as they were before either has written,
\* then each applies it with deposit_gross.
InterleavedSyncs(self, balance) ==
    LET external_deposit == SyncedDeposit(self, balance)
        first == deposit_gross(self, external_deposit)
    IN  IF ~first.ok THEN first
        ELSE deposit_gross(first.self, external_deposit)

\* C23 (as stated, second half): when every operation runs as one serialized
\* step, net_amount_deposited + streamflow_fee_total + partner_fee_total equals
\* the sum of everything deposited in every reachable state.
C23_SerializedSumIsDeposited ==
    created => GrossSum(ledger) = deposited

\* C23 witness (first half): a serialized try_sync_balance absorbed an observed
\* top-up once and the totals equal everything deposited; had a second
\* try_sync_balance read the totals before this one wrote, the top-up would be
\* in the totals twice.
C23_Witness ==
    /\ created /\ clean /\ call.op = "try_sync_balance" /\ call.ok
    /\ SyncedDeposit(pre, call.arg) > 0
    /\ GrossSum(ledger) = deposited
    /\ LET twice == InterleavedSyncs(pre, call.arg)
       IN  /\ twice.ok
           /\ GrossSum(twice.self) = WideAdd(deposited, SyncedDeposit(pre, call.arg))
           /\ GrossSum(twice.self) # deposited

\* C31: a successful deposit_net, deposit_gross or try_sync_balance leaves
\* net_amount_deposited, partner_fee_total, streamflow_fee_total and end_time
\* each at least what it was before the call, so along any sequence of
\* successful calls on one ledger none of the four ever decreases.
C31_MonotonicGrowth ==
    (created /\ call.op \in Deposits /\ call.ok) =>
        /\ ledger.ix.net_amount_deposited >= pre.ix.net_amount_deposited
        /\ ledger.partner_fee_total >= pre.partner_fee_total
        /\ ledger.streamflow_fee_total >= pre.streamflow_fee_total
        /\ ledger.end_time >= pre.end_time

\* C31 witness: the second of two successful deposits on a ledger with fees
\* raised the principal, both fee totals and the end time.
C31_Witness ==
    /\ created /\ clean /\ ncalls = 2 /\ call.op \in Deposits /\ call.ok
    /\ pre.ix.net_amount_deposited > given.ix.net_amount_deposited
    /\ ledger.ix.net_amount_deposited > pre.ix.net_amount_deposited
    /\ ledger.partner_fee_total > pre.partner_fee_total
    /\ ledger.streamflow_fee_total > pre.streamflow_fee_total
    /\ ledger.end_time > pre.end_time

=============================================================================
